---- MODULE Spec2Model ----
(***************************************************************************)
(* Contact form round trip of JR Tech Solutions.                           *)
(*                                                                         *)
(*   backend/server.js      the Express endpoint POST /contact             *)
(*   frontend/src/App.jsx   the React form and handleContactSubmit         *)
(*                                                                         *)
(* EndpointSpec is the endpoint under requests from any HTTP client.       *)
(* Spec is the form in the browser talking to the endpoint over a network  *)
(* that may fail or answer with something else than the endpoint.          *)
(***************************************************************************)
EXTENDS Integers, Sequences, FiniteSets, TLC

\* Number of requests any HTTP client sends to the endpoint (EndpointSpec).
MaxRequests == 2
\* Number of submit events of the contact form (Spec).
MaxSubmits == 2

VARIABLES
    expressMajor,     \* major version of the express package the build resolves
    requests,         \* requests the endpoint has received, in order of arrival
    log,              \* the process log stream, one entry per logged submission
    contactEmail,     \* form state (App.jsx useState)
    contactMessage,
    contactLoading,
    contactSuccess,
    contactFeedback,
    calls,            \* one entry per call of handleContactSubmit
    posts,            \* every fetch the form has issued, in order
    lastDone          \* the call whose continuation ran to its end in the last step, if any

endpointVars == <<expressMajor, requests, log>>
formVars == <<contactEmail, contactMessage, contactLoading, contactSuccess,
              contactFeedback, calls, posts, lastDone>>
vars == <<expressMajor, requests, log, contactEmail, contactMessage, contactLoading,
          contactSuccess, contactFeedback, calls, posts, lastDone>>

(***************************************************************************)
(* JavaScript / JSON values. Every value is a record of the same shape so  *)
(* that values of different types can be compared.                         *)
(***************************************************************************)
Undefined == [type |-> "undefined", val |-> ""]
Null == [type |-> "null", val |-> ""]
Str(s) == [type |-> "string", val |-> s]
Num(s) == [type |-> "number", val |-> s]
Bool(s) == [type |-> "boolean", val |-> s]
Obj == [type |-> "object", val |-> "{}"]

\* ToBoolean: what `!x` and `x || y` test.
Truthy(v) ==
    CASE v.type = "undefined" -> FALSE
      [] v.type = "null" -> FALSE
      [] v.type = "string" -> v.val # ""
      [] v.type = "number" -> v.val # "0"
      [] v.type = "boolean" -> v.val = "true"
      [] OTHER -> TRUE

\* What a JSON object can hold under the key email (Undefined: the key is absent).
EmailValues == {Undefined, Null, Str(""), Str("a@b.com"), Num("5")}

\* What a JSON object can hold under the key message.
MessageValues == {Undefined, Str(""), Str("hi"), Num("0"), Obj}

(***************************************************************************)
(* HTTP messages.                                                          *)
(***************************************************************************)
\* A request as it is on the wire: no JSON body at all, a body that is not
\* JSON, a JSON primitive (a string, a number, null), a JSON array, or a JSON
\* object with or without the two keys.
Raw(kind, email, message) == [kind |-> kind, email |-> email, message |-> message]

RawBodies ==
    {Raw(k, Undefined, Undefined) : k \in {"none", "malformed", "primitive", "array"}}
    \cup {Raw("object", e, m) : e \in EmailValues, m \in MessageValues}

\* A response: its status and its body, which is JSON (an object or null) or not.
Response(status, kind, success, message) ==
    [status |-> status, kind |-> kind, success |-> success, message |-> message]

NoResponse == Response(0, "none", Undefined, Undefined)

\* What Express's default error handler answers for an error with that status.
ErrorPage(status) == Response(status, "html", Undefined, Undefined)

\* req.body
Body(defined, email, message) == [defined |-> defined, email |-> email, message |-> message]

NoBody == Body(FALSE, Undefined, Undefined)

(***************************************************************************)
(* backend/server.js                                                       *)
(***************************************************************************)
RequiredText == "Email and message are required."
SentText == "Your message has been sent successfully!"

\* app.use(express.json()): the body parser in its default, strict mode. A body
\* that is not JSON, or is JSON but neither an object nor an array, is an error
\* with status 400. A request without a JSON body is passed on with req.body
\* = {} by express 4 and with req.body undefined by express 5. An array has
\* neither key.
expressJson(raw, major) ==
    CASE raw.kind \in {"malformed", "primitive"} -> [error |-> TRUE, body |-> NoBody]
      [] raw.kind = "none" ->
            [error |-> FALSE,
             body |-> IF major = 4 THEN Body(TRUE, Undefined, Undefined) ELSE NoBody]
      [] raw.kind = "array" -> [error |-> FALSE, body |-> Body(TRUE, Undefined, Undefined)]
      [] OTHER -> [error |-> FALSE, body |-> Body(TRUE, raw.email, raw.message)]

\* The four console.log calls of one submission.
Submission(email, message) == [email |-> email, message |-> message]

\* PostContact with `!email && !message`: only a request lacking both is refused.
PostContactAnd(body, lg) ==
    IF ~body.defined
    THEN [sent |-> <<ErrorPage(500)>>, log |-> lg]
    ELSE IF ~Truthy(body.email) /\ ~Truthy(body.message)
    THEN [sent |-> <<Response(400, "object", Bool("false"), Str(RequiredText))>>,
          log |-> lg]
    ELSE [sent |-> <<Response(200, "object", Bool("true"), Str(SentText))>>,
          log |-> Append(lg, Submission(body.email, body.message))]

\* PostContact with `!email || message`: the second negation forgotten.
PostContactNoNot(body, lg) ==
    IF ~body.defined
    THEN [sent |-> <<ErrorPage(500)>>, log |-> lg]
    ELSE IF ~Truthy(body.email) \/ Truthy(body.message)
    THEN [sent |-> <<Response(400, "object", Bool("false"), Str(RequiredText))>>,
          log |-> lg]
    ELSE [sent |-> <<Response(200, "object", Bool("true"), Str(SentText))>>,
          log |-> Append(lg, Submission(body.email, body.message))]

\* PostContact refusing a submission it has already logged.
PostContactOnce(body, lg) ==
    IF ~body.defined
    THEN [sent |-> <<ErrorPage(500)>>, log |-> lg]
    ELSE IF ~Truthy(body.email) \/ ~Truthy(body.message)
    THEN [sent |-> <<Response(400, "object", Bool("false"), Str(RequiredText))>>,
          log |-> lg]
    ELSE IF \E k \in DOMAIN lg : lg[k] = Submission(body.email, body.message)
    THEN [sent |-> <<Response(400, "object", Bool("false"), Str("Already sent."))>>,
          log |-> lg]
    ELSE [sent |-> <<Response(200, "object", Bool("true"), Str(SentText))>>,
          log |-> Append(lg, Submission(body.email, body.message))]

\* PostContact with the console.log calls placed before the validation.
PostContactLogFirst(body, lg) ==
    IF ~body.defined
    THEN [sent |-> <<ErrorPage(500)>>, log |-> lg]
    ELSE IF ~Truthy(body.email) \/ ~Truthy(body.message)
    THEN [sent |-> <<Response(400, "object", Bool("false"), Str(RequiredText))>>,
          log |-> Append(lg, Submission(body.email, body.message))]
    ELSE [sent |-> <<Response(200, "object", Bool("true"), Str(SentText))>>,
          log |-> Append(lg, Submission(body.email, body.message))]

\* app.post('/contact', (req, res) => ...): the responses it sends and the log
\* it leaves. Destructuring an undefined req.body throws a TypeError, which
\* Express's default error handler answers with status 500.
PostContact(body, lg) ==
    IF ~body.defined
    THEN [sent |-> <<ErrorPage(500)>>, log |-> lg]
    ELSE IF ~Truthy(body.email) \/ ~Truthy(body.message)
    THEN [sent |-> <<Response(400, "object", Bool("false"), Str(RequiredText))>>,
          log |-> lg]
    ELSE [sent |-> <<Response(200, "object", Bool("true"), Str(SentText))>>,
          log |-> Append(lg, Submission(body.email, body.message))]

\* A request at the endpoint. post: the fetch of the form that sent it (its
\* place in posts), 0 for a request of another HTTP client. sent: the
\* responses written to it; logged: the submissions logged while handling it.
Request(post, raw) ==
    [post |-> post, raw |-> raw, stage |-> "received", body |-> NoBody, sent |-> <<>>,
     logged |-> <<>>]

\* The body parser has read the request: it passes it on to the route or
\* fails it, and then the default error handler answers.
ParseBody(r) ==
    /\ r \in DOMAIN requests
    /\ requests[r].stage = "received"
    /\ LET p == expressJson(requests[r].raw, expressMajor)
       IN requests' = [requests EXCEPT ![r] =
              IF p.error
              THEN [@ EXCEPT !.stage = "responded", !.sent = <<ErrorPage(400)>>]
              ELSE [@ EXCEPT !.stage = "parsed", !.body = p.body]]
    /\ UNCHANGED <<expressMajor, log>>
    /\ UNCHANGED formVars

\* The route handler runs, from its first line to its last, on one request.
HandleContact(r) ==
    /\ r \in DOMAIN requests
    /\ requests[r].stage = "parsed"
    /\ LET h == PostContact(requests[r].body, log)
       IN /\ requests' = [requests EXCEPT ![r] =
                 [@ EXCEPT !.stage = "responded", !.sent = h.sent,
                           !.logged = SubSeq(h.log, Len(log) + 1, Len(h.log))]]
          /\ log' = h.log
    /\ UNCHANGED expressMajor
    /\ UNCHANGED formVars

\* Some HTTP client sends POST /contact with any body.
Post(raw) ==
    /\ Len(requests) < MaxRequests
    /\ requests' = Append(requests, Request(0, raw))
    /\ UNCHANGED <<expressMajor, log>>
    /\ UNCHANGED formVars

(***************************************************************************)
(* frontend/src/App.jsx                                                    *)
(***************************************************************************)
GenericText == "Something went wrong. Please try again."
NetworkText == "Network error. Please ensure the backend server is running."

\* What the user can type into the two inputs.
Emails == {"", "a@b.com"}
Messages == {"", "hi", "hello"}

\* Answers to a fetch that do not come from server.js: whatever else listens
\* at CONTACT_API_URL or sits in front of it.
OtherResponses ==
    {Response(s, b[1], Undefined, b[2]) :
        s \in {200, 502},
        b \in {<<"html", Undefined>>, <<"null", Undefined>>,
               <<"object", Undefined>>, <<"object", Str("Try later")>>}}

\* response.ok
Ok(response) == response.status >= 200 /\ response.status <= 299

\* JSON.stringify({ email: contactEmail, message: contactMessage })
Stringify(email, message) == Raw("object", Str(email), Str(message))

\* The five useState values, as one record.
FormState ==
    [email |-> contactEmail, message |-> contactMessage, loading |-> contactLoading,
     success |-> contactSuccess, feedback |-> contactFeedback]

\* Catch showing the generic text instead of the connectivity text.
CatchGeneric(st) == [st EXCEPT !.success = Bool("false"), !.feedback = Str(GenericText)]

\* catch (error) { ... }
Catch(st) == [st EXCEPT !.success = Bool("false"), !.feedback = Str(NetworkText)]

\* finally { ... }
Finally(st) == [st EXCEPT !.loading = FALSE]

\* AfterJson with the two fields cleared after the if statement, on both branches.
AfterJsonClearAlways(response, st) ==
    IF Ok(response)
    THEN IF response.kind = "null"
         THEN Catch([st EXCEPT !.success = Bool("true")])
         ELSE [st EXCEPT !.success = Bool("true"), !.feedback = response.message,
                         !.email = "", !.message = ""]
    ELSE IF response.kind = "null"
         THEN Catch([st EXCEPT !.success = Bool("false")])
         ELSE [st EXCEPT !.success = Bool("false"),
                         !.feedback = IF Truthy(response.message)
                                      THEN response.message ELSE Str(GenericText),
                         !.email = "", !.message = ""]

\* The try block after `result = await response.json()` has resolved. Reading
\* result.message of a null result throws, after setContactSuccess has run.
AfterJson(response, st) ==
    IF Ok(response)
    THEN IF response.kind = "null"
         THEN Catch([st EXCEPT !.success = Bool("true")])
         ELSE [st EXCEPT !.success = Bool("true"), !.feedback = response.message,
                         !.email = "", !.message = ""]
    ELSE IF response.kind = "null"
         THEN Catch([st EXCEPT !.success = Bool("false")])
         ELSE [st EXCEPT !.success = Bool("false"),
                         !.feedback = IF Truthy(response.message)
                                      THEN response.message ELSE Str(GenericText)]

\* A call of handleContactSubmit: the field values its closure holds, where it
\* stands, and the response its fetch resolved with.
Call(email, message) ==
    [email |-> email, message |-> message, pc |-> "fetch", response |-> NoResponse]

\* lastDone: the call that has just ended and the response it had received
\* (NoResponse: its fetch rejected). call is 0 when the last step ended no call.
Done(i, response) == [call |-> i, response |-> response]

NoneDone == Done(0, NoResponse)

\* A promise the call awaits has settled and its continuation is queued as a
\* microtask, which runs before the next event.
Queued(i) == calls[i].pc \in {"resolved", "rejected", "jsonResolved", "jsonRejected"}

MicrotaskQueued == \E i \in DOMAIN calls : Queued(i)

\* onChange of the email input
setContactEmail(v) ==
    /\ ~MicrotaskQueued
    /\ v # contactEmail
    /\ contactEmail' = v
    /\ lastDone' = NoneDone
    /\ UNCHANGED <<contactMessage, contactLoading, contactSuccess, contactFeedback,
                   calls, posts>>
    /\ UNCHANGED endpointVars

\* onChange of the message textarea
setContactMessage(v) ==
    /\ ~MicrotaskQueued
    /\ v # contactMessage
    /\ contactMessage' = v
    /\ lastDone' = NoneDone
    /\ UNCHANGED <<contactEmail, contactLoading, contactSuccess, contactFeedback,
                   calls, posts>>
    /\ UNCHANGED endpointVars

\* The fetch calls one call of handleContactSubmit makes on entry.
Fetches(i, email, message) == <<[call |-> i, body |-> Stringify(email, message)]>>

\* handleContactSubmit without the reset of the feedback text.
handleContactSubmitNoReset ==
    /\ ~MicrotaskQueued
    /\ Len(calls) < MaxSubmits
    /\ ~contactLoading
    /\ contactEmail # "" /\ contactMessage # ""
    /\ contactLoading' = TRUE
    /\ contactSuccess' = Null
    /\ calls' = Append(calls, Call(contactEmail, contactMessage))
    /\ posts' = posts \o Fetches(Len(calls) + 1, contactEmail, contactMessage)
    /\ lastDone' = NoneDone
    /\ UNCHANGED <<contactEmail, contactMessage, contactFeedback>>
    /\ UNCHANGED endpointVars

\* handleContactSubmit with a submit button that is never disabled.
handleContactSubmitAlways ==
    /\ ~MicrotaskQueued
    /\ Len(calls) < MaxSubmits
    /\ contactEmail # "" /\ contactMessage # ""
    /\ contactLoading' = TRUE
    /\ contactSuccess' = Null
    /\ contactFeedback' = Str("")
    /\ calls' = Append(calls, Call(contactEmail, contactMessage))
    /\ posts' = posts \o Fetches(Len(calls) + 1, contactEmail, contactMessage)
    /\ lastDone' = NoneDone
    /\ UNCHANGED <<contactEmail, contactMessage>>
    /\ UNCHANGED endpointVars

\* The form is submitted: handleContactSubmit runs to its first await. The
\* browser submits only with both required inputs filled and the submit
\* button enabled.
handleContactSubmit ==
    /\ ~MicrotaskQueued
    /\ Len(calls) < MaxSubmits
    /\ ~contactLoading
    /\ contactEmail # "" /\ contactMessage # ""
    /\ contactLoading' = TRUE
    /\ contactSuccess' = Null
    /\ contactFeedback' = Str("")
    /\ calls' = Append(calls, Call(contactEmail, contactMessage))
    /\ posts' = posts \o Fetches(Len(calls) + 1, contactEmail, contactMessage)
    /\ lastDone' = NoneDone
    /\ UNCHANGED <<contactEmail, contactMessage>>
    /\ UNCHANGED endpointVars

\* A fetch of the form reaches the endpoint.
Receive(k) ==
    /\ k \in DOMAIN posts
    /\ \A r \in DOMAIN requests : requests[r].post # k
    /\ requests' = Append(requests, Request(k, posts[k].body))
    /\ UNCHANGED <<expressMajor, log>>
    /\ UNCHANGED formVars

\* The endpoint's response to the call's request arrives: fetch resolves.
FetchResolves(i) ==
    /\ i \in DOMAIN calls
    /\ calls[i].pc = "fetch"
    /\ \E r \in DOMAIN requests :
          /\ requests[r].post # 0
          /\ posts[requests[r].post].call = i
          /\ requests[r].stage = "responded"
          /\ calls' = [calls EXCEPT ![i] =
                 [@ EXCEPT !.pc = "resolved", !.response = requests[r].sent[1]]]
    /\ lastDone' = NoneDone
    /\ UNCHANGED <<contactEmail, contactMessage, contactLoading, contactSuccess,
                   contactFeedback, posts>>
    /\ UNCHANGED endpointVars

\* Something else answers the call's request: fetch resolves.
FetchResolvesOther(i, response) ==
    /\ i \in DOMAIN calls
    /\ calls[i].pc = "fetch"
    /\ calls' = [calls EXCEPT ![i] = [@ EXCEPT !.pc = "resolved", !.response = response]]
    /\ lastDone' = NoneDone
    /\ UNCHANGED <<contactEmail, contactMessage, contactLoading, contactSuccess,
                   contactFeedback, posts>>
    /\ UNCHANGED endpointVars

\* No response is reachable: fetch rejects.
FetchRejects(i) ==
    /\ i \in DOMAIN calls
    /\ calls[i].pc = "fetch"
    /\ calls' = [calls EXCEPT ![i] = [@ EXCEPT !.pc = "rejected"]]
    /\ lastDone' = NoneDone
    /\ UNCHANGED <<contactEmail, contactMessage, contactLoading, contactSuccess,
                   contactFeedback, posts>>
    /\ UNCHANGED endpointVars

\* The response's body has been read: response.json() resolves with the parsed
\* value, or rejects when the body is not JSON.
JsonSettles(i) ==
    /\ i \in DOMAIN calls
    /\ calls[i].pc = "json"
    /\ calls' = [calls EXCEPT ![i] =
           [@ EXCEPT !.pc = IF calls[i].response.kind = "html"
                            THEN "jsonRejected" ELSE "jsonResolved"]]
    /\ lastDone' = NoneDone
    /\ UNCHANGED <<contactEmail, contactMessage, contactLoading, contactSuccess,
                   contactFeedback, posts>>
    /\ UNCHANGED endpointVars

\* Resume with setContactLoading(false) as the last line of the try block
\* instead of a finally block.
ResumeLoadingInTry(i, st, ps) ==
    [form |-> IF calls[i].pc = "jsonResolved" /\ calls[i].response.kind # "null"
              THEN Finally(AfterJson(calls[i].response, st))
              ELSE IF calls[i].pc = "jsonResolved"
              THEN AfterJson(calls[i].response, st)
              ELSE Catch(st),
     posts |-> ps]

\* Resume with a catch block that sends the request again.
ResumeRetry(i, st, ps) ==
    [form |-> Finally(IF calls[i].pc = "jsonResolved"
                      THEN AfterJson(calls[i].response, st)
                      ELSE Catch(st)),
     posts |-> IF calls[i].pc = "jsonResolved" THEN ps
               ELSE Append(ps, [call |-> i,
                                body |-> Stringify(calls[i].email, calls[i].message)])]

\* handleContactSubmit from the settled `await response.json()`, or from the
\* rejected fetch, to its end: the form state and the fetches it leaves.
Resume(i, st, ps) ==
    [form |-> Finally(IF calls[i].pc = "jsonResolved"
                      THEN AfterJson(calls[i].response, st)
                      ELSE Catch(st)),
     posts |-> ps]

\* The queued continuation of a call runs.
Continue(i) ==
    /\ i \in DOMAIN calls
    /\ Queued(i)
    /\ IF calls[i].pc = "resolved"
       THEN /\ calls' = [calls EXCEPT ![i] = [@ EXCEPT !.pc = "json"]]
            /\ lastDone' = NoneDone
            /\ UNCHANGED <<contactEmail, contactMessage, contactLoading,
                           contactSuccess, contactFeedback, posts>>
       ELSE LET n == Resume(i, FormState, posts)
            IN /\ contactEmail' = n.form.email
               /\ contactMessage' = n.form.message
               /\ contactLoading' = n.form.loading
               /\ contactSuccess' = n.form.success
               /\ contactFeedback' = n.form.feedback
               /\ posts' = n.posts
               /\ calls' = [calls EXCEPT ![i] =
                      [@ EXCEPT !.pc = "done", !.response = NoResponse]]
               /\ lastDone' = Done(i, calls[i].response)
    /\ UNCHANGED endpointVars

(***************************************************************************)
(* Specifications                                                          *)
(***************************************************************************)
Init ==
    /\ expressMajor \in {4, 5}
    /\ requests = <<>>
    /\ log = <<>>
    /\ contactEmail = ""
    /\ contactMessage = ""
    /\ contactLoading = FALSE
    /\ contactSuccess = Null
    /\ contactFeedback = Str("")
    /\ calls = <<>>
    /\ posts = <<>>
    /\ lastDone = NoneDone

\* The form, the network and the endpoint.
Next ==
    \/ \E v \in Emails : setContactEmail(v)
    \/ \E v \in Messages : setContactMessage(v)
    \/ handleContactSubmit
    \/ \E k \in 1..MaxSubmits : Receive(k)
    \/ \E r \in 1..MaxSubmits : ParseBody(r)
    \/ \E r \in 1..MaxSubmits : HandleContact(r)
    \/ \E i \in 1..MaxSubmits : FetchResolves(i)
    \/ \E i \in 1..MaxSubmits, response \in OtherResponses : FetchResolvesOther(i, response)
    \/ \E i \in 1..MaxSubmits : FetchRejects(i)
    \/ \E i \in 1..MaxSubmits : JsonSettles(i)
    \/ \E i \in 1..MaxSubmits : Continue(i)

Spec == Init /\ [][Next]_vars

\* The event loop runs a queued continuation.
FairSpec == Spec /\ WF_vars(\E i \in 1..MaxSubmits : Continue(i))

\* The form and the endpoint with nothing else answering at CONTACT_API_URL:
\* a fetch resolves with the response of server.js or rejects.
DirectNext ==
    \/ \E v \in Emails : setContactEmail(v)
    \/ \E v \in Messages : setContactMessage(v)
    \/ handleContactSubmit
    \/ \E k \in 1..MaxSubmits : Receive(k)
    \/ \E r \in 1..MaxSubmits : ParseBody(r)
    \/ \E r \in 1..MaxSubmits : HandleContact(r)
    \/ \E i \in 1..MaxSubmits : FetchResolves(i)
    \/ \E i \in 1..MaxSubmits : FetchRejects(i)
    \/ \E i \in 1..MaxSubmits : JsonSettles(i)
    \/ \E i \in 1..MaxSubmits : Continue(i)

DirectSpec == Init /\ [][DirectNext]_vars

\* The endpoint under the requests of any HTTP client.
EndpointNext ==
    \/ \E raw \in RawBodies : Post(raw)
    \/ \E r \in 1..MaxRequests : ParseBody(r)
    \/ \E r \in 1..MaxRequests : HandleContact(r)

EndpointSpec == Init /\ [][EndpointNext]_vars

(***************************************************************************)
(* The endpoint (EndpointSpec)                                             *)
(***************************************************************************)
Responded == {r \in DOMAIN requests : requests[r].stage = "responded"}

\* The JSON body has neither key (an array), or has an object with the key
\* absent or holding the empty string.
LacksOrEmpty(raw) ==
    \/ raw.kind = "array"
    \/ /\ raw.kind = "object"
       /\ \/ raw.email \in {Undefined, Str("")}
          \/ raw.message \in {Undefined, Str("")}

NonEmptyString(v) == v.type = "string" /\ v.val # ""

C3_ResponseShape ==
    \A r \in Responded :
        /\ Len(requests[r].sent) = 1
        /\ \/ requests[r].sent[1].status = 200 /\ requests[r].sent[1].success = Bool("true")
           \/ requests[r].sent[1].status = 400 /\ requests[r].sent[1].success = Bool("false")
        /\ requests[r].sent[1].message.type = "string"

\* C9: every logged submission has a non-empty string as email and as
\* message; a request without them is neither logged nor answered with success.
C9_LoggedAreSubmissions ==
    /\ \A k \in DOMAIN log : NonEmptyString(log[k].email) /\ NonEmptyString(log[k].message)
    /\ \A r \in Responded :
          ~(/\ requests[r].raw.kind = "object"
            /\ NonEmptyString(requests[r].raw.email)
            /\ NonEmptyString(requests[r].raw.message)) =>
              /\ requests[r].logged = <<>>
              /\ \A k \in DOMAIN requests[r].sent :
                    requests[r].sent[k].success # Bool("true")

\* C10: two requests with the same body get the same responses, whatever was
\* handled before each and however their handling was interleaved.
C10_Stateless ==
    \A r, q \in Responded :
        requests[r].raw = requests[q].raw => requests[r].sent = requests[q].sent

C10_Witness ==
    \E r, q \in Responded :
        /\ r < q
        /\ requests[r].raw = requests[q].raw
        /\ requests[q].logged # <<>>
        /\ Len(log) = 2


(***************************************************************************)
(* The form (Spec, FairSpec)                                               *)
(***************************************************************************)
\* The promise the call awaited last has settled: the fetch rejected, or the
\* response's body was read or found unparsable.
Settled(i) ==
    i \in DOMAIN calls /\ calls[i].pc \in {"rejected", "jsonResolved", "jsonRejected"}

\* The call's continuation has just run to its end.
JustDone(i) == i \in DOMAIN calls /\ lastDone.call = i

\* The call that has just ended had got a response (of any status, with any body).
GotResponse == lastDone.response # NoResponse

\* C4: once the request of a submit has settled (a success response, a
\* non-OK response, an unparsable response or a network failure),
\* handleContactSubmit runs to its end and leaves contactLoading false.
C4_LoadingReturnsToFalse ==
    (\E i \in 1..MaxSubmits : Settled(i))
        ~> (\E i \in 1..MaxSubmits : JustDone(i) /\ ~contactLoading)

C4_Witness ==
    \E i \in DOMAIN calls :
        /\ JustDone(i)
        /\ lastDone.response.kind = "html"
        /\ \E j \in DOMAIN calls : j < i

\* C5: right after a submit whose response is OK, both fields are empty, the
\* success flag is true, the feedback is the response's message and the
\* loading flag is false.
C5_SuccessClearsForm ==
    \A i \in DOMAIN calls :
        (JustDone(i) /\ GotResponse /\ Ok(lastDone.response)) =>
            /\ contactEmail = "" /\ contactMessage = ""
            /\ contactSuccess = Bool("true")
            /\ contactFeedback = lastDone.response.message
            /\ ~contactLoading

\* C6: right after a submit whose fetch rejected, the feedback is the
\* connectivity text, the success flag is false and the loading flag is false.
C6_NetworkFailure ==
    \A i \in DOMAIN calls :
        (JustDone(i) /\ ~GotResponse) =>
            /\ contactFeedback = Str(NetworkText)
            /\ contactSuccess = Bool("false")
            /\ ~contactLoading

C6_Witness ==
    \E i \in DOMAIN calls :
        /\ JustDone(i) /\ ~GotResponse
        /\ contactEmail # calls[i].email

\* C7: right after a submit whose response is not OK, the success flag is
\* false and the feedback is the response's message if it has one and the
\* generic text otherwise; the feedback is not the connectivity text, since a
\* response was received.
C7_ServerFailure ==
    \A i \in DOMAIN calls :
        /\ (JustDone(i) /\ GotResponse /\ ~Ok(lastDone.response)) =>
              /\ contactSuccess = Bool("false")
              /\ contactFeedback =
                     IF Truthy(lastDone.response.message)
                     THEN lastDone.response.message ELSE Str(GenericText)
        /\ (JustDone(i) /\ GotResponse /\ ~Ok(lastDone.response)) =>
              contactFeedback # Str(NetworkText)

\* C8: every submit has issued exactly one fetch, at any time after it and
\* whatever its outcome, and that fetch carries the two field values of the
\* moment of the submit.
C8_OnePostPerSubmit ==
    \A i \in DOMAIN calls :
        /\ Cardinality({k \in DOMAIN posts : posts[k].call = i}) = 1
        /\ \A k \in DOMAIN posts :
              posts[k].call = i =>
                  posts[k].body = Raw("object", Str(calls[i].email), Str(calls[i].message))

C8_Witness ==
    \E i, j \in DOMAIN calls :
        /\ calls[i].pc = "done"
        /\ JustDone(j) /\ ~GotResponse
        /\ calls[i].message # calls[j].message
        /\ contactMessage # calls[j].message

\* The call has not run to its end: its request is in flight, its response is
\* being read, or its continuation is queued.
InFlight(i) == i \in DOMAIN calls /\ calls[i].pc # "done"

\* The user could submit: both required inputs are filled, no continuation is
\* about to run, and the run has submits left.
ReadyToSubmit ==
    /\ contactEmail # "" /\ contactMessage # ""
    /\ ~MicrotaskQueued
    /\ Len(calls) < MaxSubmits

\* C11 as stated: the UI does not prevent double submission, that is, while
\* one request is in flight the filled form can be submitted again.
C11_DoubleSubmitPossible ==
    ((\E i \in DOMAIN calls : InFlight(i)) /\ ReadyToSubmit) => ENABLED handleContactSubmit

\* C11 as amended: the submit button is disabled while contactLoading is
\* true, so the form cannot be submitted while a request is in flight and at
\* most one request of the form is in flight at any time.
C11_OneInFlight ==
    /\ Cardinality({i \in DOMAIN calls : InFlight(i)}) <= 1
    /\ (\E i \in DOMAIN calls : InFlight(i)) => ~ENABLED handleContactSubmit

C11_Witness ==
    \E i \in DOMAIN calls :
        /\ calls[i].pc = "fetch"
        /\ ReadyToSubmit
        /\ contactMessage # calls[i].message

\* The requests answered with status 200.
Accepted == {r \in Responded : \E k \in DOMAIN requests[r].sent : requests[r].sent[k].status = 200}

\* C12: a request answered with 200 has logged its email and message exactly
\* once, and the record is in the log in every state in which the response
\* exists; the log holds as many records as there are 200 responses, and a
\* request not answered with 200 has logged nothing.
C12_LoggedOncePerAccepted ==
    /\ \A r \in Accepted :
          /\ requests[r].logged = <<Submission(requests[r].body.email, requests[r].body.message)>>
          /\ requests[r].body.email = requests[r].raw.email
          /\ requests[r].body.message = requests[r].raw.message
          /\ \E k \in DOMAIN log : log[k] = requests[r].logged[1]
    /\ \A r \in DOMAIN requests : r \notin Accepted => requests[r].logged = <<>>
    /\ Len(log) = Cardinality(Accepted)

C12_Witness ==
    /\ Cardinality(Accepted) = 1
    /\ Len(log) = 1
    /\ \E r \in Responded : requests[r].sent[1].status = 400 /\ requests[r].body.defined
    /\ Len(requests) = MaxRequests

\* C13: contactLoading is true exactly when a call of handleContactSubmit has
\* not run to its end, that is, when a request of the form is under way.
C13_LoadingIffInFlight ==
    contactLoading <=> (\E i \in DOMAIN calls : InFlight(i))

C13_Witness ==
    \E i, j \in DOMAIN calls :
        /\ j < i
        /\ calls[j].pc = "done"
        /\ calls[i].pc = "json"
        /\ contactLoading
        /\ contactEmail = ""

\* The step in which call i runs to its end.
Ends(i) ==
    /\ i \in DOMAIN calls
    /\ calls[i].pc # "done"
    /\ calls'[i].pc = "done"

\* The call that ends in this step failed: its fetch rejected or its response
\* was not OK.
Failed == lastDone'.response = NoResponse \/ ~Ok(lastDone'.response)

\* C14: the step that ends a failed submit (a non-OK response or a rejected
\* fetch) leaves contactEmail and contactMessage as they were; a step that
\* ends a submit and changes one of them ends a submit with an OK response.
C14_FailureKeepsFields ==
    [][\A i \in 1..MaxSubmits :
          (Ends(i) /\ Failed) =>
              (contactEmail' = contactEmail /\ contactMessage' = contactMessage)]_vars

C14_Witness ==
    \E i \in DOMAIN calls :
        /\ JustDone(i)
        /\ GotResponse /\ ~Ok(lastDone.response) /\ lastDone.response.kind = "object"
        /\ contactEmail = calls[i].email
        /\ contactMessage # "" /\ contactMessage # calls[i].message

\* No feedback text is shown: what `{contactFeedback && ...}` tests.
FeedbackEmpty == ~Truthy(contactFeedback)

\* C15: with the form talking to this endpoint, the feedback text is empty
\* exactly when the success flag is null, and while contactLoading is true the
\* feedback text is empty and the success flag is null.
C15_FeedbackConsistent ==
    /\ FeedbackEmpty <=> (contactSuccess = Null)
    /\ contactLoading => (FeedbackEmpty /\ contactSuccess = Null)

C15_Witness ==
    /\ Len(calls) = 2
    /\ calls[1].pc = "done"
    /\ calls[2].pc = "fetch"
    /\ contactLoading
    /\ \E r \in DOMAIN requests : requests[r].post = 1 /\ requests[r].stage = "responded"

====
